---- MODULE Spec2Model ----
(***************************************************************************)
(* The Postgres ticket store of store/pg/ticket_store.go as a state        *)
(* machine: the committed tables, and every caller's position inside the   *)
(* operation it is running, one step per SQL statement or channel          *)
(* operation.                                                              *)
(***************************************************************************)
EXTENDS Integers, Sequences, FiniteSets, TLC

(***************************************************************************)
(* Bounds of the model.                                                    *)
(***************************************************************************)
\* ids the tickets serial may hand out
MaxTickets == 3
\* ids the field_values serial may hand out
MaxFieldValues == 3
\* length of a Fields collection a caller supplies
MaxFields == 2
\* readings of the wall clock
MaxClock == 1
\* ids the comments serial may hand out
MaxComments == 2

\* request handlers of the host that run concurrently
Callers == {"c1", "c2"}
\* the one handler of the sequential specification
Solo == "c1"

Nil == "nil"

(***************************************************************************)
(* Tables no operation of the ticket store writes.                         *)
(***************************************************************************)
\* projects: id, key
Projects == {[ID |-> 1, Key |-> "PROJ"], [ID |-> 2, Key |-> "OPS"]}

\* a models.Project as a caller may fill it: whole, id only, key only
ProjectArgs == Projects \cup {[ID |-> 1, Key |-> ""], [ID |-> 0, Key |-> "PROJ"]}

ProjectOf(pid) == CHOOSE p \in Projects : p.ID = pid

\* fields: id -> name, data_type
Fields ==
  [fid \in 1..7 |->
     CASE fid = 1 -> [name |-> "points", data_type |-> "INT"]
       [] fid = 2 -> [name |-> "estimate", data_type |-> "FLOAT"]
       [] fid = 3 -> [name |-> "team", data_type |-> "STRING"]
       [] fid = 4 -> [name |-> "due", data_type |-> "DATE"]
       [] fid = 5 -> [name |-> "priority", data_type |-> "OPT"]
       [] fid = 7 -> [name |-> "component", data_type |-> "OPT"]
       [] OTHER -> [name |-> "flag", data_type |-> "BOOL"]]

\* field_options: field_id -> options, in row order (none for field 7)
FieldOptions ==
  [fid \in 1..7 |-> IF fid = 5 THEN <<"Low", "Medium", "High">> ELSE <<>>]

(***************************************************************************)
(* Errors.                                                                 *)
(***************************************************************************)
\* what the driver returns for a statement that failed
PqError == "pq: error"
ErrNoRows == "sql: no rows in result set"
JsonError == "json: error"

\* handlePqErr is defined outside the files at hand (store/pg); modelled from
\* the error taxonomy: nil stays nil, every failure is classified.
handlePqErr(e) ==
  CASE e = Nil -> Nil
    [] e = ErrNoRows -> "NotFound"
    [] e \in {"NotFound", "DuplicateEntry", "StoreError"} -> e
    [] OTHER -> "StoreError"

(***************************************************************************)
(* strconv.Itoa for the non-negative numbers the model reaches.            *)
(***************************************************************************)
Digit(d) == <<"0", "1", "2", "3", "4", "5", "6", "7", "8", "9">>[d + 1]

RECURSIVE Itoa(_)
Itoa(n) == IF n < 10 THEN Digit(n) ELSE Itoa(n \div 10) \o Digit(n % 10)

(***************************************************************************)
(* State.                                                                  *)
(***************************************************************************)
VARIABLES
  tickets,         \* tickets table, committed rows: id -> row
  field_values,    \* field_values table, committed rows: id -> row
  tickets_labels,  \* tickets_labels table, committed rows
  ticketSeq,       \* next id of the tickets serial
  fieldValueSeq,   \* next id of the field_values serial
  clock,           \* the wall clock time.Now() reads
  call,            \* per caller: the operation it is in and its locals
  generated,       \* history: ids of the tickets whose key came from NextTicketKey
  crashed,         \* the process died of an unrecovered panic
  comments,        \* comments table, committed rows: id -> row
  commentSeq       \* next id of the comments serial

vars == <<tickets, field_values, tickets_labels, ticketSeq, fieldValueSeq,
          clock, call, generated, crashed, comments, commentSeq>>

store == <<tickets, field_values, tickets_labels>>

Restrict(f, S) == [x \in S |-> f[x]]

Idle == [op |-> "idle"]

(***************************************************************************)
(* Values a FieldValue carries (Go's interface{} with its dynamic type).   *)
(***************************************************************************)
IntV(n) == [kind |-> "int", i |-> n]
FloatV(x) == [kind |-> "float64", f |-> x]
StringV(x) == [kind |-> "string", s |-> x]
TimeV(x) == [kind |-> "time.Time", d |-> x]
OptV(sel, opts) == [kind |-> "FieldOption", Selected |-> sel, Options |-> opts]
NilV == [kind |-> "nil"]

Quote(x) == "\"" \o x \o "\""

RECURSIVE JoinQuoted(_)
JoinQuoted(xs) ==
  IF xs = <<>> THEN ""
  ELSE IF Len(xs) = 1 THEN Quote(xs[1])
  ELSE Quote(xs[1]) \o "," \o JoinQuoted(Tail(xs))

\* json.Marshal of a value: the error and the JSON text
Marshal(v) ==
  CASE v.kind = "int" -> [err |-> Nil, jsn |-> Itoa(v.i)]
    [] v.kind = "float64" ->
         IF v.f = "NaN" THEN [err |-> JsonError, jsn |-> ""]
         ELSE [err |-> Nil, jsn |-> v.f]
    [] v.kind = "string" -> [err |-> Nil, jsn |-> Quote(v.s)]
    [] v.kind = "time.Time" -> [err |-> Nil, jsn |-> Quote(v.d)]
    [] v.kind = "FieldOption" ->
         [err |-> Nil,
          jsn |-> "{\"selected\":" \o Quote(v.Selected) \o ",\"options\":["
                    \o JoinQuoted(v.Options) \o "]}"]
    [] OTHER -> [err |-> Nil, jsn |-> "null"]

\* json.Marshal of a whole models.FieldValue
MarshalFieldValue(fv) ==
  LET m == Marshal(fv.Value) IN
  IF m.err # Nil THEN m
  ELSE [err |-> Nil,
        jsn |-> "{\"id\":" \o Itoa(fv.ID) \o ",\"name\":" \o Quote(fv.Name)
                  \o ",\"data_type\":" \o Quote(fv.DataType)
                  \o ",\"value\":" \o m.jsn \o "}"]

(***************************************************************************)
(* Rows.  A nullable column is a sequence: <<>> is NULL, <<x>> holds x.    *)
(***************************************************************************)
TicketRow(key, pid, summary, description, created) ==
  [key |-> key, project_id |-> pid, summary |-> summary,
   description |-> description, created_date |-> created,
   updated_date |-> created, assignee_id |-> 1, reporter_id |-> 1,
   status_id |-> 1, ticket_type_id |-> 1]

\* a field_values row as the read path's columns hold it
TypedRow(tid, fid, i, f, s, o, d) ==
  [ticket_id |-> tid, field_id |-> fid, int_value |-> <<i>>,
   flt_value |-> <<f>>, str_value |-> <<s>>, opt_value |-> <<o>>,
   dte_value |-> <<d>>, name |-> <<>>, data_type |-> <<>>, value |-> <<>>]

\* a field_values row as New's INSERT leaves it: only name, data_type, value
InsertedRow(name, dataType, jsn) ==
  [ticket_id |-> 0, field_id |-> 0, int_value |-> <<>>, flt_value |-> <<>>,
   str_value |-> <<>>, opt_value |-> <<>>, dte_value |-> <<>>,
   name |-> <<name>>, data_type |-> <<dataType>>, value |-> <<jsn>>]

\* a comments row as NewComment's INSERT leaves it: body, ticket_id and
\* author_id; updated_date is <<>> until a statement of the store writes it
\* (the INSERT leaves both timestamps to the table's defaults)
CommentRow(body, tid, aid) ==
  [body |-> body, ticket_id |-> tid, author_id |-> aid, updated_date |-> <<>>]

ZeroTime == "0001-01-01T00:00:00Z"
Day1 == "2016-11-01T00:00:00Z"

(***************************************************************************)
(* What callers pass in.                                                   *)
(***************************************************************************)
Summaries == {"s1", "s2"}
Descriptions == {"d1"}

FieldValueArg(id, name, dataType, value) ==
  [ID |-> id, Name |-> name, DataType |-> dataType, Value |-> value]

fvInt == FieldValueArg(1, "points", "INT", IntV(7))
fvOpt == FieldValueArg(2, "priority", "OPT", OptV("High", <<"Low", "Medium", "High">>))
fvFloat == FieldValueArg(1, "estimate", "FLOAT", FloatV("1.5"))
fvString == FieldValueArg(2, "team", "STRING", StringV("core"))
fvDate == FieldValueArg(1, "due", "DATE", TimeV(Day1))
fvNaN == FieldValueArg(2, "estimate", "FLOAT", FloatV("NaN"))

\* the Fields collections callers supply, up to MaxFields long
FieldsArgs ==
  {fs \in {<<>>, <<fvInt>>, <<fvNaN>>, <<fvInt, fvOpt>>, <<fvFloat, fvString>>,
           <<fvDate, fvNaN>>, <<fvInt, fvString, fvDate>>,
           <<fvOpt, fvFloat, fvNaN>>} : Len(fs) <= MaxFields}

TicketIDs == 1..MaxTickets

\* what callers put in a models.Comment
Bodies == {"b1", "b2"}
Authors == {1, 2}
CommentIDs == 1..MaxComments

(***************************************************************************)
(* Init: two tickets of project PROJ; ticket 1 has two field values, a     *)
(* label and a comment, ticket 2 has a label only.                         *)
(***************************************************************************)
InitialTickets ==
  (1 :> TicketRow("PROJ1", 1, "s1", "d1", 0))
    @@ (2 :> TicketRow("PROJ2", 1, "s1", "d1", 0))

InitialFieldValues ==
  (1 :> TypedRow(1, 1, 7, "0", "", "", ZeroTime))
    @@ (2 :> TypedRow(1, 5, 0, "0", "", "Medium", ZeroTime))

InitialLabels ==
  {[ticket_id |-> 1, label_id |-> 1], [ticket_id |-> 2, label_id |-> 1]}

InitialComments == (1 :> CommentRow("b1", 1, 1))

Init ==
  /\ tickets = InitialTickets
  /\ field_values = InitialFieldValues
  /\ tickets_labels = InitialLabels
  /\ ticketSeq = 3
  /\ fieldValueSeq = 3
  /\ clock = 0
  /\ call = [c \in Callers |-> Idle]
  /\ generated = {1, 2}
  /\ crashed = FALSE
  /\ comments = InitialComments
  /\ commentSeq = 2

\* time passes
Tick ==
  /\ ~crashed
  /\ clock < MaxClock
  /\ clock' = clock + 1
  /\ UNCHANGED <<comments, commentSeq>>
  /\ UNCHANGED <<tickets, field_values, tickets_labels, ticketSeq,
                 fieldValueSeq, call, generated, crashed>>

\* a handler that has returned takes up the next request
Return(c) ==
  /\ ~crashed
  /\ call[c].op # "idle"
  /\ call[c].pc = "ret"
  /\ call[c].op = "Get" => call[c].g \in {"none", "exited"}
  /\ call' = [call EXCEPT ![c] = Idle]
  /\ UNCHANGED <<comments, commentSeq>>
  /\ UNCHANGED <<tickets, field_values, tickets_labels, ticketSeq,
                 fieldValueSeq, clock, generated, crashed>>

(***************************************************************************)
(* Remove: three deletes in one transaction.  The transaction's deletes    *)
(* are pending until Commit applies them to the committed tables.          *)
(***************************************************************************)
NoTx == [field_values |-> {}, tickets_labels |-> {}, tickets |-> {}]

\* persisted (history): the ticket row was committed when Remove was called
RemoveCall(id, pc, tx, failedAt, err) ==
  [op |-> "Remove", pc |-> pc, ticket |-> [ID |-> id], tx |-> tx,
   failedAt |-> failedAt, err |-> err, persisted |-> id \in DOMAIN tickets]

\* tx, err := ts.db.Begin(); a failed Begin leaves tx nil, and the
\* tx.Rollback() of the error branch dereferences it
RemoveBegin(c) ==
  /\ ~crashed
  /\ call[c] = Idle
  /\ \E id \in TicketIDs, ok \in BOOLEAN :
       IF ok
       THEN /\ call' = [call EXCEPT ![c] =
                          RemoveCall(id, "delFieldValues", NoTx, "none", Nil)]
            /\ crashed' = FALSE
       ELSE /\ call' = [call EXCEPT ![c] =
                          RemoveCall(id, "panic", NoTx, "begin", Nil)]
            /\ crashed' = TRUE
  /\ UNCHANGED <<comments, commentSeq>>
  /\ UNCHANGED <<tickets, field_values, tickets_labels, ticketSeq,
                 fieldValueSeq, clock, generated>>

\* the first delete run on the plain connection instead of the transaction
RemoveDelFieldValuesAutocommit(c) ==
  /\ ~crashed
  /\ call[c].op = "Remove" /\ call[c].pc = "delFieldValues"
  /\ \E ok \in BOOLEAN :
       LET cur == call[c]
           hit == {f \in DOMAIN field_values :
                     field_values[f].ticket_id = cur.ticket.ID}
       IN IF ok
          THEN /\ field_values' = Restrict(field_values, DOMAIN field_values \ hit)
               /\ call' = [call EXCEPT ![c] = [cur EXCEPT !.pc = "delLabels"]]
          ELSE /\ UNCHANGED field_values
               /\ call' = [call EXCEPT ![c] =
                             [cur EXCEPT !.pc = "rollback",
                                         !.failedAt = "field_values"]]
  /\ UNCHANGED <<comments, commentSeq>>
  /\ UNCHANGED <<tickets, tickets_labels, ticketSeq, fieldValueSeq, clock,
                 generated, crashed>>

\* DELETE FROM field_values WHERE ticket_id = $1, inside the transaction
RemoveDelFieldValues(c) ==
  /\ ~crashed
  /\ call[c].op = "Remove" /\ call[c].pc = "delFieldValues"
  /\ \E ok \in BOOLEAN :
       LET cur == call[c]
           hit == {f \in DOMAIN field_values :
                     field_values[f].ticket_id = cur.ticket.ID}
       IN call' = [call EXCEPT ![c] =
                     IF ok
                     THEN [cur EXCEPT !.pc = "delLabels",
                                      !.tx.field_values = hit]
                     ELSE [cur EXCEPT !.pc = "rollback",
                                      !.failedAt = "field_values"]]
  /\ UNCHANGED <<comments, commentSeq>>
  /\ UNCHANGED <<tickets, field_values, tickets_labels, ticketSeq,
                 fieldValueSeq, clock, generated, crashed>>

\* DELETE FROM tickets_labels WHERE ticket_id = $1, inside the transaction
RemoveDelLabels(c) ==
  /\ ~crashed
  /\ call[c].op = "Remove" /\ call[c].pc = "delLabels"
  /\ \E ok \in BOOLEAN :
       LET cur == call[c]
           hit == {l \in tickets_labels : l.ticket_id = cur.ticket.ID}
       IN call' = [call EXCEPT ![c] =
                     IF ok
                     THEN [cur EXCEPT !.pc = "delTicket",
                                      !.tx.tickets_labels = hit]
                     ELSE [cur EXCEPT !.pc = "rollback",
                                      !.failedAt = "tickets_labels"]]
  /\ UNCHANGED <<comments, commentSeq>>
  /\ UNCHANGED <<tickets, field_values, tickets_labels, ticketSeq,
                 fieldValueSeq, clock, generated, crashed>>

\* DELETE FROM tickets WHERE id = $1, inside the transaction
RemoveDelTicket(c) ==
  /\ ~crashed
  /\ call[c].op = "Remove" /\ call[c].pc = "delTicket"
  /\ \E ok \in BOOLEAN :
       LET cur == call[c]
           hit == {t \in DOMAIN tickets : t = cur.ticket.ID}
       IN call' = [call EXCEPT ![c] =
                     IF ok
                     THEN [cur EXCEPT !.pc = "commit", !.tx.tickets = hit]
                     ELSE [cur EXCEPT !.pc = "rollback",
                                      !.failedAt = "tickets"]]
  /\ UNCHANGED <<comments, commentSeq>>
  /\ UNCHANGED <<tickets, field_values, tickets_labels, ticketSeq,
                 fieldValueSeq, clock, generated, crashed>>

\* return handlePqErr(tx.Rollback()): the pending deletes are dropped and the
\* caller gets Rollback's own result, not the error of the failed statement
RemoveRollback(c) ==
  /\ ~crashed
  /\ call[c].op = "Remove" /\ call[c].pc = "rollback"
  /\ \E ok \in BOOLEAN :
       call' = [call EXCEPT ![c] =
                  [call[c] EXCEPT !.pc = "ret", !.tx = NoTx,
                     !.err = handlePqErr(IF ok THEN Nil ELSE PqError)]]
  /\ UNCHANGED <<comments, commentSeq>>
  /\ UNCHANGED <<tickets, field_values, tickets_labels, ticketSeq,
                 fieldValueSeq, clock, generated, crashed>>

\* a Commit that deletes the ticket's comments with it
RemoveCommitCascade(c) ==
  /\ ~crashed
  /\ call[c].op = "Remove" /\ call[c].pc = "commit"
  /\ \E ok \in BOOLEAN :
       LET cur == call[c] IN
       IF ok
       THEN /\ field_values' =
                 Restrict(field_values, DOMAIN field_values \ cur.tx.field_values)
            /\ tickets_labels' = tickets_labels \ cur.tx.tickets_labels
            /\ tickets' = Restrict(tickets, DOMAIN tickets \ cur.tx.tickets)
            /\ comments' =
                 Restrict(comments, {k \in DOMAIN comments :
                                      comments[k].ticket_id \notin cur.tx.tickets})
            /\ call' = [call EXCEPT ![c] =
                          [cur EXCEPT !.pc = "ret", !.tx = NoTx,
                                      !.err = handlePqErr(Nil)]]
       ELSE /\ UNCHANGED <<tickets, field_values, tickets_labels, comments>>
            /\ call' = [call EXCEPT ![c] =
                          [cur EXCEPT !.pc = "ret", !.tx = NoTx,
                                      !.failedAt = "commit",
                                      !.err = handlePqErr(PqError)]]
  /\ UNCHANGED <<commentSeq, ticketSeq, fieldValueSeq, clock, generated, crashed>>

\* return handlePqErr(tx.Commit()): the pending deletes reach the committed
\* tables together, or not at all
RemoveCommit(c) ==
  /\ ~crashed
  /\ call[c].op = "Remove" /\ call[c].pc = "commit"
  /\ \E ok \in BOOLEAN :
       LET cur == call[c] IN
       IF ok
       THEN /\ field_values' =
                 Restrict(field_values, DOMAIN field_values \ cur.tx.field_values)
            /\ tickets_labels' = tickets_labels \ cur.tx.tickets_labels
            /\ tickets' = Restrict(tickets, DOMAIN tickets \ cur.tx.tickets)
            /\ call' = [call EXCEPT ![c] =
                          [cur EXCEPT !.pc = "ret", !.tx = NoTx,
                                      !.err = handlePqErr(Nil)]]
       ELSE /\ UNCHANGED <<tickets, field_values, tickets_labels>>
            /\ call' = [call EXCEPT ![c] =
                          [cur EXCEPT !.pc = "ret", !.tx = NoTx,
                                      !.failedAt = "commit",
                                      !.err = handlePqErr(PqError)]]
  /\ UNCHANGED <<comments, commentSeq>>
  /\ UNCHANGED <<ticketSeq, fieldValueSeq, clock, generated, crashed>>

(***************************************************************************)
(* NextTicketKey: one COUNT over the tickets joined with their project.    *)
(***************************************************************************)
\* the count matched by project id alone
CountTicketsByID(p) ==
  Cardinality({t \in DOMAIN tickets : tickets[t].project_id = p.ID})

\* SELECT COUNT(t.id) ... JOIN projects ... WHERE p.id = $1 OR p.key = $2
CountTickets(p) ==
  Cardinality({t \in DOMAIN tickets :
                 \E pr \in Projects :
                   /\ pr.ID = tickets[t].project_id
                   /\ (pr.ID = p.ID \/ pr.Key = p.Key)})

NextTicketKey(c) ==
  /\ ~crashed
  /\ call[c] = Idle
  /\ \E p \in ProjectArgs, ok \in BOOLEAN :
       call' = [call EXCEPT ![c] =
                  [op |-> "NextTicketKey", pc |-> "ret", p |-> p,
                   queryFailed |-> ~ok,
                   result |-> IF ok THEN p.Key \o Itoa(CountTickets(p) + 1)
                              ELSE p.Key \o Itoa(1)]]
  /\ UNCHANGED <<comments, commentSeq>>
  /\ UNCHANGED <<tickets, field_values, tickets_labels, ticketSeq,
                 fieldValueSeq, clock, generated, crashed>>

(***************************************************************************)
(* New: the ticket INSERT, then one INSERT per supplied FieldValue, each   *)
(* its own statement on the plain connection.                              *)
(***************************************************************************)
\* whether caller c has just been handed a key for a project of the table
HasKey(c) ==
  call[c].op = "NextTicketKey" /\ call[c].pc = "ret" /\ call[c].p \in Projects

\* the (project, key, from NextTicketKey) a caller calls New with: an idle
\* caller passes one of `keys`; a caller NextTicketKey has just returned to
\* passes that project and that key
NewArgs(c, keys) ==
  IF HasKey(c)
  THEN {[project |-> call[c].p, key |-> call[c].result, fromGen |-> TRUE]}
  ELSE {[project |-> p, key |-> k, fromGen |-> FALSE] : p \in Projects, k \in keys}

\* a New that asks for the next key of the project when it is given none
NewInsertTicketAutoKey(c, keys, summaries, fields) ==
  /\ ~crashed
  /\ call[c] = Idle \/ HasKey(c)
  /\ \E a \in NewArgs(c, keys), sm \in summaries, ds \in Descriptions,
        fs \in fields, ok \in BOOLEAN :
       LET id == IF ok THEN ticketSeq ELSE 0
           err == IF ok THEN Nil ELSE PqError
           key == IF a.key = ""
                  THEN a.project.Key \o Itoa(CountTickets(a.project) + 1)
                  ELSE a.key
           cur == [op |-> "New", pc |-> IF fs = <<>> THEN "ret" ELSE "fields",
                   project |-> a.project,
                   ticket |-> [ID |-> id, Key |-> a.key, Summary |-> sm,
                               Description |-> ds, Fields |-> fs],
                   i |-> 1, outerErr |-> err, ticketInserted |-> ok,
                   fieldFailed |-> FALSE,
                   err |-> IF fs = <<>> THEN handlePqErr(err) ELSE Nil]
       IN /\ ok => ticketSeq <= MaxTickets
          /\ call' = [call EXCEPT ![c] = cur]
          /\ IF ok
             THEN /\ tickets' = tickets @@
                       (ticketSeq :> TicketRow(key, a.project.ID, sm, ds, clock))
                  /\ ticketSeq' = ticketSeq + 1
                  /\ generated' = IF a.fromGen THEN generated \cup {ticketSeq}
                                  ELSE generated
             ELSE UNCHANGED <<tickets, ticketSeq, generated>>
  /\ UNCHANGED <<comments, commentSeq>>
  /\ UNCHANGED <<field_values, tickets_labels, fieldValueSeq, clock, crashed>>

\* INSERT INTO tickets ... RETURNING id, scanned into ticket.ID; err is the
\* function's outer err, the only one the final return reads
NewInsertTicket(c, keys, summaries, fields) ==
  /\ ~crashed
  /\ call[c] = Idle \/ HasKey(c)
  /\ \E a \in NewArgs(c, keys), sm \in summaries, ds \in Descriptions,
        fs \in fields, ok \in BOOLEAN :
       LET id == IF ok THEN ticketSeq ELSE 0
           err == IF ok THEN Nil ELSE PqError
           cur == [op |-> "New", pc |-> IF fs = <<>> THEN "ret" ELSE "fields",
                   project |-> a.project,
                   ticket |-> [ID |-> id, Key |-> a.key, Summary |-> sm,
                               Description |-> ds, Fields |-> fs],
                   i |-> 1, outerErr |-> err, ticketInserted |-> ok,
                   fieldFailed |-> FALSE,
                   err |-> IF fs = <<>> THEN handlePqErr(err) ELSE Nil]
       IN /\ ok => ticketSeq <= MaxTickets
          /\ call' = [call EXCEPT ![c] = cur]
          /\ IF ok
             THEN /\ tickets' = tickets @@
                       (ticketSeq :> TicketRow(a.key, a.project.ID, sm, ds, clock))
                  /\ ticketSeq' = ticketSeq + 1
                  /\ generated' = IF a.fromGen THEN generated \cup {ticketSeq}
                                  ELSE generated
             ELSE UNCHANGED <<tickets, ticketSeq, generated>>
  /\ UNCHANGED <<comments, commentSeq>>
  /\ UNCHANGED <<field_values, tickets_labels, fieldValueSeq, clock, crashed>>

\* one turn of `for _, fv := range ticket.Fields`: jsn, err := json.Marshal(fv)
\* declares the loop's own err, which the INSERT's result is assigned to
NewInsertFieldValue(c) ==
  /\ ~crashed
  /\ call[c].op = "New" /\ call[c].pc = "fields"
  /\ \E ok \in BOOLEAN :
       LET cur == call[c]
           fv == cur.ticket.Fields[cur.i]
           m == MarshalFieldValue(fv)
           last == cur.i = Len(cur.ticket.Fields)
       IN IF m.err # Nil
          THEN /\ call' = [call EXCEPT ![c] =
                             [cur EXCEPT !.pc = "ret", !.err = m.err]]
               /\ UNCHANGED <<field_values, fieldValueSeq>>
          ELSE /\ ok => fieldValueSeq <= MaxFieldValues
               /\ IF ok
                  THEN /\ field_values' = field_values @@
                            (fieldValueSeq :> InsertedRow(fv.Name, fv.DataType, m.jsn))
                       /\ fieldValueSeq' = fieldValueSeq + 1
                  ELSE UNCHANGED <<field_values, fieldValueSeq>>
               /\ call' = [call EXCEPT ![c] =
                             [cur EXCEPT !.i = @ + 1,
                                !.fieldFailed = @ \/ ~ok,
                                !.pc = IF last THEN "ret" ELSE "fields",
                                !.err = IF last THEN handlePqErr(cur.outerErr)
                                        ELSE Nil]]
  /\ UNCHANGED <<comments, commentSeq>>
  /\ UNCHANGED <<tickets, tickets_labels, ticketSeq, clock, generated,
                 crashed>>

(***************************************************************************)
(* Save: the ticket UPDATE, then one UPDATE per supplied FieldValue, each  *)
(* its own statement on the plain connection.                              *)
(***************************************************************************)
\* the ticket UPDATE without its WHERE clause
UpdateEveryTicket(tbl, id, sm, ds, now) ==
  [t \in DOMAIN tbl |->
     [tbl[t] EXCEPT !.summary = sm, !.description = ds, !.updated_date = now]]

\* UPDATE tickets SET (summary, description, updated_date) = ... WHERE id = $4
UpdateTicket(tbl, id, sm, ds, now) ==
  [t \in DOMAIN tbl |->
     IF t = id
     THEN [tbl[t] EXCEPT !.summary = sm, !.description = ds, !.updated_date = now]
     ELSE tbl[t]]

\* UPDATE field_values SET (name, data_type, value) = ... WHERE id = $4
UpdateFieldValue(tbl, fv, jsn) ==
  [f \in DOMAIN tbl |->
     IF f = fv.ID
     THEN [tbl[f] EXCEPT !.name = <<fv.Name>>, !.data_type = <<fv.DataType>>,
                         !.value = <<jsn>>]
     ELSE tbl[f]]

\* the ticket UPDATE; its error is kept in the outer err and the loop over
\* the fields runs whether or not it failed.
\* before (history): the field_values table when Save was called
SaveUpdateTicketOf(c, summaries, fields) ==
  /\ ~crashed
  /\ call[c] = Idle
  /\ \E id \in TicketIDs, sm \in summaries, ds \in Descriptions,
        fs \in fields, ok \in BOOLEAN :
       LET err == IF ok THEN Nil ELSE PqError IN
       /\ tickets' = IF ok THEN UpdateTicket(tickets, id, sm, ds, clock)
                     ELSE tickets
       /\ call' = [call EXCEPT ![c] =
                     [op |-> "Save", pc |-> IF fs = <<>> THEN "ret" ELSE "fields",
                      ticket |-> [ID |-> id, Summary |-> sm, Description |-> ds,
                                  Fields |-> fs],
                      i |-> 1, outerErr |-> err, failedAt |-> 0,
                      before |-> field_values,
                      err |-> IF fs = <<>> THEN handlePqErr(err) ELSE Nil]]
  /\ UNCHANGED <<comments, commentSeq>>
  /\ UNCHANGED <<field_values, tickets_labels, ticketSeq, fieldValueSeq, clock,
                 generated, crashed>>

\* Save called with any of the summaries and Fields collections
SaveUpdateTicket(c) == SaveUpdateTicketOf(c, Summaries, FieldsArgs)

\* the loop going on to the next field value after a failed UPDATE
SaveUpdateFieldValueContinue(c) ==
  /\ ~crashed
  /\ call[c].op = "Save" /\ call[c].pc = "fields"
  /\ \E ok \in BOOLEAN :
       LET cur == call[c]
           fv == cur.ticket.Fields[cur.i]
           m == Marshal(fv.Value)
           last == cur.i = Len(cur.ticket.Fields)
       IN IF m.err # Nil
          THEN /\ call' = [call EXCEPT ![c] =
                             [cur EXCEPT !.pc = "ret", !.err = m.err]]
               /\ UNCHANGED field_values
          ELSE /\ field_values' = IF ok THEN UpdateFieldValue(field_values, fv, m.jsn)
                                  ELSE field_values
               /\ call' = [call EXCEPT ![c] =
                             [cur EXCEPT !.i = @ + 1,
                                !.failedAt = IF ok \/ @ # 0 THEN @ ELSE cur.i,
                                !.pc = IF last THEN "ret" ELSE "fields",
                                !.err = IF last THEN handlePqErr(PqError)
                                        ELSE Nil]]
  /\ UNCHANGED <<comments, commentSeq>>
  /\ UNCHANGED <<tickets, tickets_labels, ticketSeq, fieldValueSeq, clock,
                 generated, crashed>>

\* one turn of `for _, fv := range ticket.Fields`: marshal fv.Value, run the
\* UPDATE, return at once if either failed; after the last turn return the
\* ticket UPDATE's error.
\* failedAt (history): the index of the field value whose UPDATE failed
SaveUpdateFieldValue(c) ==
  /\ ~crashed
  /\ call[c].op = "Save" /\ call[c].pc = "fields"
  /\ \E ok \in BOOLEAN :
       LET cur == call[c]
           fv == cur.ticket.Fields[cur.i]
           m == Marshal(fv.Value)
           last == cur.i = Len(cur.ticket.Fields)
       IN IF m.err # Nil
          THEN /\ call' = [call EXCEPT ![c] =
                             [cur EXCEPT !.pc = "ret", !.err = m.err]]
               /\ UNCHANGED field_values
          ELSE IF ok
          THEN /\ field_values' = UpdateFieldValue(field_values, fv, m.jsn)
               /\ call' = [call EXCEPT ![c] =
                             [cur EXCEPT !.i = @ + 1,
                                !.pc = IF last THEN "ret" ELSE "fields",
                                !.err = IF last THEN handlePqErr(cur.outerErr)
                                        ELSE Nil]]
          ELSE /\ UNCHANGED field_values
               /\ call' = [call EXCEPT ![c] =
                             [cur EXCEPT !.pc = "ret", !.failedAt = cur.i,
                                         !.err = handlePqErr(PqError)]]
  /\ UNCHANGED <<comments, commentSeq>>
  /\ UNCHANGED <<tickets, tickets_labels, ticketSeq, fieldValueSeq, clock,
                 generated, crashed>>

(***************************************************************************)
(* The read path: populateFields and getOpts.                              *)
(***************************************************************************)
\* the elements of a set of numbers in ascending order
RECURSIVE Ascending(_)
Ascending(S) ==
  IF S = {} THEN <<>>
  ELSE LET m == CHOOSE x \in S : \A y \in S : x <= y
       IN <<m>> \o Ascending(S \ {m})

\* SELECT ... FROM field_values AS fv JOIN fields AS f ON f.id = fv.field_id
\* WHERE fv.ticket_id = $1: the ids of the rows streamed
FieldRowsOf(tid) ==
  Ascending({f \in DOMAIN field_values :
               /\ field_values[f].ticket_id = tid
               /\ field_values[f].field_id \in DOMAIN Fields})

\* `var fv *models.FieldValue` is never assigned before rows.Scan(fv.ID, ...)
FvIsNilPointer == TRUE

\* rows.Scan into int, float64, string and time.Time fails on a NULL column
ScanFails(row) ==
  \/ row.int_value = <<>> \/ row.flt_value = <<>> \/ row.str_value = <<>>
  \/ row.opt_value = <<>> \/ row.dte_value = <<>>

\* getOpts: fo.Options gets every option of the field, in row order
getOpts(fid, fo) ==
  [fo EXCEPT !.Options = @ \o FieldOptions[fid]]

\* the switch on fv.DataType: the one column the data type names
DecodeValue(row) ==
  LET dt == Fields[row.field_id].data_type IN
  CASE dt = "FLOAT" -> FloatV(row.flt_value[1])
    [] dt = "INT" -> IntV(row.int_value[1])
    [] dt = "STRING" -> StringV(row.str_value[1])
    [] dt = "DATE" -> TimeV(row.dte_value[1])
    [] dt = "OPT" -> getOpts(row.field_id, OptV(row.opt_value[1], <<>>))
    [] OTHER -> NilV

DecodeRow(f) ==
  LET row == field_values[f] IN
  [ID |-> f, Name |-> Fields[row.field_id].name,
   DataType |-> Fields[row.field_id].data_type, Value |-> DecodeValue(row)]

\* the loop over the rows: each row decoded and appended, until a row fails
\* to scan or, for an OPT row, getOpts fails
RECURSIVE DecodeRows(_, _, _)
DecodeRows(rows, acc, optsOk) ==
  IF rows = <<>> THEN [panic |-> FALSE, err |-> Nil, Fields |-> acc]
  ELSE LET row == field_values[Head(rows)] IN
       IF ScanFails(row) THEN [panic |-> FALSE, err |-> PqError, Fields |-> acc]
       ELSE IF Fields[row.field_id].data_type = "OPT" /\ ~optsOk
       THEN [panic |-> FALSE, err |-> PqError, Fields |-> acc]
       ELSE DecodeRows(Tail(rows), Append(acc, DecodeRow(Head(rows))), optsOk)

\* populateFields(db, t): the query, then the loop; the first row's
\* rows.Scan(fv.ID, ...) dereferences the nil fv
populateFields(tid, fields, queryOk, optsOk) ==
  IF ~queryOk THEN [panic |-> FALSE, err |-> PqError, Fields |-> fields]
  ELSE IF FieldRowsOf(tid) = <<>>
  THEN [panic |-> FALSE, err |-> Nil, Fields |-> fields]
  ELSE IF FvIsNilPointer
  THEN [panic |-> TRUE, err |-> Nil, Fields |-> fields]
  ELSE DecodeRows(FieldRowsOf(tid), fields, optsOk)

(***************************************************************************)
(* Get and intoTicket: the caller decodes the four references while a      *)
(* goroutine populates the fields; they meet on the unbuffered channels    *)
(* dberr and done.                                                         *)
(***************************************************************************)
\* the rows of Get's query: id or key matches, and every JOIN finds its row
GetRows(arg) ==
  {t \in DOMAIN tickets :
     /\ t = arg.ID \/ tickets[t].key = arg.Key
     /\ \E p \in Projects : p.ID = tickets[t].project_id}

\* the models.Ticket a caller passes to Get: the id alone, or the key alone
GetArgs ==
  {[ID |-> id, Key |-> ""] : id \in TicketIDs}
    \cup {[ID |-> 0, Key |-> tickets[t].key] : t \in DOMAIN tickets}
    \cup {[ID |-> 0, Key |-> "NONE1"]}

ZeroTicket(arg) ==
  [ID |-> arg.ID, Key |-> arg.Key, CreatedDate |-> 0, UpdatedDate |-> 0,
   Summary |-> "", Description |-> "", Assignee |-> [ID |-> 0],
   Reporter |-> [ID |-> 0], Status |-> [ID |-> 0], Type |-> [ID |-> 0],
   Fields |-> <<>>]

\* row.Scan(&t.ID, &t.Key, &t.CreatedDate, &t.UpdatedDate, &t.Summary,
\* &t.Description, ...)
ScannedTicket(arg, id) ==
  [ZeroTicket(arg) EXCEPT !.ID = id, !.Key = tickets[id].key,
     !.CreatedDate = tickets[id].created_date,
     !.UpdatedDate = tickets[id].updated_date,
     !.Summary = tickets[id].summary,
     !.Description = tickets[id].description]

\* Get's query and intoTicket up to `go func()`.  A failed query or no row
\* makes row.Scan fail and Get return; otherwise the scalar columns are in
\* t, the channels are made and the goroutine is started.
\* bad: which of the four JSON columns (1..4) does not decode, 0 for none
\* row (history): the id of the row scanned
GetQueryRow(c) ==
  /\ ~crashed
  /\ call[c] = Idle
  /\ \E arg \in GetArgs, ok \in BOOLEAN, bad \in 0..4 :
       LET base == [op |-> "Get", arg |-> arg, queryOk |-> ok, bad |-> bad,
                    row |-> 0, t |-> ZeroTicket(arg), k |-> 1, err |-> Nil,
                    pc |-> "ret", g |-> "none", gres |-> Nil, popOk |-> TRUE,
                    dberrClosed |-> FALSE, doneClosed |-> FALSE]
       IN IF ~ok
          THEN /\ bad = 0
               /\ call' = [call EXCEPT ![c] =
                             [base EXCEPT !.err = handlePqErr(handlePqErr(PqError))]]
          ELSE IF GetRows(arg) = {}
          THEN /\ bad = 0
               /\ call' = [call EXCEPT ![c] =
                             [base EXCEPT !.err = handlePqErr(handlePqErr(ErrNoRows))]]
          ELSE \E id \in GetRows(arg) :
                 call' = [call EXCEPT ![c] =
                            [base EXCEPT !.row = id, !.t = ScannedTicket(arg, id),
                                         !.pc = "unmarshal", !.g = "populate"]]
  /\ UNCHANGED <<comments, commentSeq>>
  /\ UNCHANGED <<tickets, field_values, tickets_labels, ticketSeq,
                 fieldValueSeq, clock, generated, crashed>>

\* the k-th json.Unmarshal (assignee, reporter, status, type): on an error
\* the caller goes on to `done <- struct{}{}`, after the fourth to `<-dberr`
Unmarshal(c) ==
  /\ ~crashed
  /\ call[c].op = "Get" /\ call[c].pc = "unmarshal"
  /\ LET cur == call[c]
         row == tickets[cur.row]
     IN call' = [call EXCEPT ![c] =
          IF cur.bad = cur.k
          THEN [cur EXCEPT !.pc = "sendDone", !.err = JsonError]
          ELSE [cur EXCEPT
                  !.t = CASE cur.k = 1 -> [@ EXCEPT !.Assignee = [ID |-> row.assignee_id]]
                          [] cur.k = 2 -> [@ EXCEPT !.Reporter = [ID |-> row.reporter_id]]
                          [] cur.k = 3 -> [@ EXCEPT !.Status = [ID |-> row.status_id]]
                          [] OTHER -> [@ EXCEPT !.Type = [ID |-> row.ticket_type_id]],
                  !.k = @ + 1,
                  !.pc = IF cur.k = 4 THEN "recvDberr" ELSE "unmarshal"]]
  /\ UNCHANGED <<comments, commentSeq>>
  /\ UNCHANGED <<tickets, field_values, tickets_labels, ticketSeq,
                 fieldValueSeq, clock, generated, crashed>>

\* the goroutine evaluates populateFields(db, t), the operand of its send,
\* before it enters the select
GoPopulateFields(c) ==
  /\ ~crashed
  /\ call[c].op = "Get" /\ call[c].g = "populate"
  /\ \E queryOk \in BOOLEAN, optsOk \in BOOLEAN :
       LET cur == call[c]
           r == populateFields(cur.t.ID, cur.t.Fields, queryOk, optsOk)
       IN /\ queryOk \/ optsOk
          /\ optsOk \/ (\E f \in DOMAIN field_values :
                          /\ field_values[f].ticket_id = cur.t.ID
                          /\ field_values[f].field_id \in DOMAIN Fields
                          /\ Fields[field_values[f].field_id].data_type = "OPT")
          /\ call' = [call EXCEPT ![c] =
                        [cur EXCEPT !.g = IF r.panic THEN "panic" ELSE "select",
                                    !.gres = r.err, !.popOk = queryOk /\ optsOk,
                                    !.t.Fields = r.Fields]]
          /\ crashed' = r.panic
  /\ UNCHANGED <<comments, commentSeq>>
  /\ UNCHANGED <<tickets, field_values, tickets_labels, ticketSeq,
                 fieldValueSeq, clock, generated>>

\* the caller's send on done when the goroutine has no `case <-done`: it
\* never meets a receiver
SendDoneUnreceived(c) ==
  /\ ~crashed
  /\ call[c].op = "Get" /\ call[c].pc = "sendDone"
  /\ call[c].doneClosed
  /\ call' = [call EXCEPT ![c] =
                [call[c] EXCEPT !.pc = "panic", !.err = handlePqErr(call[c].err)]]
  /\ crashed' = TRUE
  /\ UNCHANGED <<comments, commentSeq>>
  /\ UNCHANGED <<tickets, field_values, tickets_labels, ticketSeq,
                 fieldValueSeq, clock, generated>>

\* `done <- struct{}{}` meets the goroutine's `case <-done`; the caller
\* returns the decode error and its deferred close(done) runs.  A send
\* on a closed channel, or closing a closed channel, panics.
SendDone(c) ==
  /\ ~crashed
  /\ call[c].op = "Get" /\ call[c].pc = "sendDone"
  /\ call[c].g = "select" \/ call[c].doneClosed
  /\ call' = [call EXCEPT ![c] =
                [call[c] EXCEPT !.pc = IF call[c].doneClosed THEN "panic" ELSE "ret",
                                !.g = "return", !.doneClosed = TRUE,
                                !.err = handlePqErr(call[c].err)]]
  /\ crashed' = call[c].doneClosed
  /\ UNCHANGED <<comments, commentSeq>>
  /\ UNCHANGED <<tickets, field_values, tickets_labels, ticketSeq,
                 fieldValueSeq, clock, generated>>

\* a receive that does not wait for the goroutine (select with a default)
RecvDberrNoWait(c) ==
  /\ ~crashed
  /\ call[c].op = "Get" /\ call[c].pc = "recvDberr"
  /\ call' = [call EXCEPT ![c] =
                [call[c] EXCEPT
                   !.pc = "ret",
                   !.g = IF call[c].g = "select" THEN "return" ELSE @,
                   !.doneClosed = TRUE,
                   !.err = IF call[c].g = "select"
                           THEN handlePqErr(handlePqErr(call[c].gres))
                           ELSE Nil]]
  /\ UNCHANGED <<comments, commentSeq>>
  /\ UNCHANGED <<tickets, field_values, tickets_labels, ticketSeq,
                 fieldValueSeq, clock, generated, crashed>>

\* `err = <-dberr` meets the goroutine's `case dberr <- ...` (or reads nil
\* from dberr once it is closed); the caller returns handlePqErr(err) and its
\* deferred close(done) runs
RecvDberr(c) ==
  /\ ~crashed
  /\ call[c].op = "Get" /\ call[c].pc = "recvDberr"
  /\ call[c].g = "select" \/ call[c].dberrClosed
  /\ call' = [call EXCEPT ![c] =
                [call[c] EXCEPT
                   !.pc = "ret",
                   !.g = IF call[c].g = "select" THEN "return" ELSE @,
                   !.doneClosed = TRUE,
                   !.err = IF call[c].g = "select"
                           THEN handlePqErr(handlePqErr(call[c].gres))
                           ELSE Nil]]
  /\ UNCHANGED <<comments, commentSeq>>
  /\ UNCHANGED <<tickets, field_values, tickets_labels, ticketSeq,
                 fieldValueSeq, clock, generated, crashed>>

\* the goroutine returns from the select (after its send or its receive, or
\* because done is closed) and its deferred close(dberr) runs
GoClose(c) ==
  /\ ~crashed
  /\ call[c].op = "Get"
  /\ call[c].g = "return" \/ (call[c].g = "select" /\ call[c].doneClosed)
  /\ call' = [call EXCEPT ![c] =
                [call[c] EXCEPT !.g = IF call[c].dberrClosed THEN "panic" ELSE "exited",
                                !.dberrClosed = TRUE]]
  /\ crashed' = call[c].dberrClosed
  /\ UNCHANGED <<comments, commentSeq>>
  /\ UNCHANGED <<tickets, field_values, tickets_labels, ticketSeq,
                 fieldValueSeq, clock, generated>>

(***************************************************************************)
(* The comments: NewComment is two statements on the plain connection,     *)
(* SaveComment and RemoveComment are one each.                             *)
(***************************************************************************)
\* the UPDATE without its WHERE clause
TouchEveryTicket(tbl, id, now) ==
  [t \in DOMAIN tbl |-> [tbl[t] EXCEPT !.updated_date = now]]

\* UPDATE tickets SET (updated_date) = ($1) WHERE id = $2
TouchTicket(tbl, id, now) ==
  [t \in DOMAIN tbl |->
     IF t = id THEN [tbl[t] EXCEPT !.updated_date = now] ELSE tbl[t]]

\* the INSERT running whether or not the UPDATE went through, and first
NewCommentInsertOnly(c, bodies, authors) ==
  /\ ~crashed
  /\ call[c] = Idle
  /\ \E id \in TicketIDs, body \in bodies, author \in authors, ok \in BOOLEAN :
       /\ ok => commentSeq <= MaxComments
       /\ IF ok
          THEN /\ comments' = comments @@
                    (commentSeq :> CommentRow(body, id, author))
               /\ commentSeq' = commentSeq + 1
          ELSE UNCHANGED <<comments, commentSeq>>
       /\ call' = [call EXCEPT ![c] =
                     [op |-> "NewComment", pc |-> "ret", t |-> [ID |-> id],
                      c |-> [ID |-> IF ok THEN commentSeq ELSE 0, Body |-> body,
                             Author |-> [ID |-> author]],
                      now |-> clock,
                      before |-> [tickets |-> tickets, comments |-> comments],
                      failedAt |-> IF ok THEN "none" ELSE "insert",
                      err |-> handlePqErr(IF ok THEN Nil ELSE PqError)]]
  /\ UNCHANGED <<tickets, field_values, tickets_labels, ticketSeq,
                 fieldValueSeq, clock, generated, crashed>>

\* NewComment's UPDATE of the parent ticket, with time.Now(); on an error
\* NewComment returns it.
\* now (history): the time of the UPDATE
\* before (history): the tickets and comments tables when NewComment was called
\* failedAt (history): the statement that failed
NewCommentUpdateTicket(c, bodies, authors) ==
  /\ ~crashed
  /\ call[c] = Idle
  /\ \E id \in TicketIDs, body \in bodies, author \in authors, ok \in BOOLEAN :
       /\ tickets' = IF ok THEN TouchTicket(tickets, id, clock) ELSE tickets
       /\ call' = [call EXCEPT ![c] =
                     [op |-> "NewComment", pc |-> IF ok THEN "insert" ELSE "ret",
                      t |-> [ID |-> id],
                      c |-> [ID |-> 0, Body |-> body, Author |-> [ID |-> author]],
                      now |-> clock,
                      before |-> [tickets |-> tickets, comments |-> comments],
                      failedAt |-> IF ok THEN "none" ELSE "update",
                      err |-> IF ok THEN Nil ELSE handlePqErr(PqError)]]
  /\ UNCHANGED <<comments, commentSeq>>
  /\ UNCHANGED <<field_values, tickets_labels, ticketSeq, fieldValueSeq, clock,
                 generated, crashed>>

\* INSERT INTO comments (body, ticket_id, author_id) ... RETURNING id, scanned
\* into c.ID; NewComment returns handlePqErr of its error
NewCommentInsert(c) ==
  /\ ~crashed
  /\ call[c].op = "NewComment" /\ call[c].pc = "insert"
  /\ \E ok \in BOOLEAN :
       LET cur == call[c] IN
       /\ ok => commentSeq <= MaxComments
       /\ IF ok
          THEN /\ comments' = comments @@
                    (commentSeq :> CommentRow(cur.c.Body, cur.t.ID, cur.c.Author.ID))
               /\ commentSeq' = commentSeq + 1
               /\ call' = [call EXCEPT ![c] =
                             [cur EXCEPT !.pc = "ret", !.c.ID = commentSeq,
                                         !.err = handlePqErr(Nil)]]
          ELSE /\ UNCHANGED <<comments, commentSeq>>
               /\ call' = [call EXCEPT ![c] =
                             [cur EXCEPT !.pc = "ret", !.failedAt = "insert",
                                         !.err = handlePqErr(PqError)]]
  /\ UNCHANGED <<tickets, field_values, tickets_labels, ticketSeq,
                 fieldValueSeq, clock, generated, crashed>>

\* UPDATE comments SET (body, updated_date, author_id) = ... WHERE id = $4
SaveComment(c, bodies, authors) ==
  /\ ~crashed
  /\ call[c] = Idle
  /\ \E id \in CommentIDs, body \in bodies, author \in authors, ok \in BOOLEAN :
       /\ comments' =
            IF ok
            THEN [k \in DOMAIN comments |->
                    IF k = id
                    THEN [comments[k] EXCEPT !.body = body, !.updated_date = <<clock>>,
                                             !.author_id = author]
                    ELSE comments[k]]
            ELSE comments
       /\ call' = [call EXCEPT ![c] =
                     [op |-> "SaveComment", pc |-> "ret",
                      c |-> [ID |-> id, Body |-> body, Author |-> [ID |-> author]],
                      err |-> handlePqErr(IF ok THEN Nil ELSE PqError)]]
  /\ UNCHANGED commentSeq
  /\ UNCHANGED <<tickets, field_values, tickets_labels, ticketSeq,
                 fieldValueSeq, clock, generated, crashed>>

\* DELETE FROM comments WHERE id = $1
RemoveComment(c) ==
  /\ ~crashed
  /\ call[c] = Idle
  /\ \E id \in CommentIDs, ok \in BOOLEAN :
       /\ comments' = IF ok THEN Restrict(comments, DOMAIN comments \ {id})
                      ELSE comments
       /\ call' = [call EXCEPT ![c] =
                     [op |-> "RemoveComment", pc |-> "ret", c |-> [ID |-> id],
                      err |-> handlePqErr(IF ok THEN Nil ELSE PqError)]]
  /\ UNCHANGED commentSeq
  /\ UNCHANGED <<tickets, field_values, tickets_labels, ticketSeq,
                 fieldValueSeq, clock, generated, crashed>>

(***************************************************************************)
(* GetAll and GetAllByProject: the query, then intoTicket on every row     *)
(* rows.Next() delivers, until one fails.                                  *)
(***************************************************************************)
\* the orders a result set of the rows S can come in (no ORDER BY)
Orders(S) ==
  {o \in [1..Cardinality(S) -> S] : \A i, j \in DOMAIN o : i # j => o[i] # o[j]}

\* the rows of GetAll's query
GetAllRows == DOMAIN tickets

\* the rows of GetAllByProject's query: ... WHERE p.id = $1 OR p.key = $2
GetAllByProjectRows(p) ==
  {t \in DOMAIN tickets :
     \E pr \in Projects :
       /\ pr.ID = tickets[t].project_id
       /\ (pr.ID = p.ID \/ pr.Key = p.Key)}

\* t after the first n of the four json.Unmarshal calls
WithReferences(t, id, n) ==
  [t EXCEPT !.Assignee = IF n >= 1 THEN [ID |-> tickets[id].assignee_id] ELSE @,
            !.Reporter = IF n >= 2 THEN [ID |-> tickets[id].reporter_id] ELSE @,
            !.Status = IF n >= 3 THEN [ID |-> tickets[id].status_id] ELSE @,
            !.Type = IF n >= 4 THEN [ID |-> tickets[id].ticket_type_id] ELSE @]

\* intoTicket(rows, db, &t) on the row of ticket id, as a whole: the columns
\* are scanned into t; the goroutine runs populateFields before it can meet
\* the caller on either channel, so a panic there precedes any return; the
\* first reference that does not decode (bad) makes the result that error,
\* otherwise the result is handlePqErr of what populateFields returned
intoTicket(id, bad, queryOk, optsOk) ==
  LET t == ScannedTicket([ID |-> 0, Key |-> ""], id)
      r == populateFields(id, t.Fields, queryOk, optsOk)
  IN [panic |-> r.panic,
      err |-> IF bad # 0 THEN JsonError ELSE handlePqErr(r.err),
      t |-> [WithReferences(t, id, IF bad = 0 THEN 4 ELSE bad - 1)
               EXCEPT !.Fields = r.Fields]]

\* a listing's locals once its query has run.
\* decoded (history): the rows intoTicket was called on
\* failedRow (history): the index of the row whose intoTicket failed
\* cut (history): rows.Next() ended the stream before the last row
Listing(op, p, ok, rows) ==
  [op |-> op, pc |-> IF ok THEN "next" ELSE "ret", p |-> p, queryOk |-> ok,
   rows |-> rows, tickets |-> <<>>, decoded |-> <<>>, failedRow |-> 0,
   cut |-> FALSE, err |-> IF ok THEN Nil ELSE handlePqErr(PqError)]

\* GetAll's query: on an error it returns the empty tickets and the error
GetAllQuery(c) ==
  /\ ~crashed
  /\ call[c] = Idle
  /\ \E ok \in BOOLEAN :
       IF ok
       THEN \E rows \in Orders(GetAllRows) :
              call' = [call EXCEPT ![c] = Listing("GetAll", [ID |-> 0, Key |-> ""], ok, rows)]
       ELSE call' = [call EXCEPT ![c] = Listing("GetAll", [ID |-> 0, Key |-> ""], ok, <<>>)]
  /\ UNCHANGED <<comments, commentSeq>>
  /\ UNCHANGED <<tickets, field_values, tickets_labels, ticketSeq,
                 fieldValueSeq, clock, generated, crashed>>

\* GetAllByProject's query
GetAllByProjectQuery(c) ==
  /\ ~crashed
  /\ call[c] = Idle
  /\ \E p \in ProjectArgs, ok \in BOOLEAN :
       IF ok
       THEN \E rows \in Orders(GetAllByProjectRows(p)) :
              call' = [call EXCEPT ![c] = Listing("GetAllByProject", p, ok, rows)]
       ELSE call' = [call EXCEPT ![c] = Listing("GetAllByProject", p, ok, <<>>)]
  /\ UNCHANGED <<comments, commentSeq>>
  /\ UNCHANGED <<tickets, field_values, tickets_labels, ticketSeq,
                 fieldValueSeq, clock, generated, crashed>>

\* the loop going on to the next row after a row failed to decode
ListNextContinue(c) ==
  /\ ~crashed
  /\ call[c].op \in {"GetAll", "GetAllByProject"} /\ call[c].pc = "next"
  /\ \E more \in BOOLEAN, bad \in 0..4, queryOk \in BOOLEAN, optsOk \in BOOLEAN :
       LET cur == call[c]
           k == Len(cur.decoded) + 1
           r == intoTicket(cur.rows[k], bad, queryOk, optsOk)
       IN IF k > Len(cur.rows) \/ ~more
          THEN /\ call' = [call EXCEPT ![c] =
                             [cur EXCEPT !.pc = "ret", !.cut = k <= Len(cur.rows),
                                         !.err = IF cur.failedRow = 0 THEN Nil
                                                 ELSE handlePqErr(JsonError)]]
               /\ crashed' = FALSE
          ELSE IF r.panic
          THEN /\ call' = [call EXCEPT ![c] =
                             [cur EXCEPT !.pc = "panic",
                                         !.decoded = Append(@, cur.rows[k])]]
               /\ crashed' = TRUE
          ELSE /\ call' = [call EXCEPT ![c] =
                             IF r.err # Nil
                             THEN [cur EXCEPT !.decoded = Append(@, cur.rows[k]),
                                              !.failedRow = IF @ = 0 THEN k ELSE @]
                             ELSE [cur EXCEPT !.decoded = Append(@, cur.rows[k]),
                                              !.tickets = Append(@, r.t)]]
               /\ crashed' = FALSE
  /\ UNCHANGED <<comments, commentSeq>>
  /\ UNCHANGED <<tickets, field_values, tickets_labels, ticketSeq,
                 fieldValueSeq, clock, generated>>

\* one turn of `for rows.Next()`: when rows.Next() is false (no row left, or
\* the stream broke; rows.Err() is not read) the listing returns tickets and
\* nil; otherwise intoTicket decodes the row into a fresh t, and the listing
\* returns tickets and handlePqErr(err) if it failed, appends t if not
ListNext(c) ==
  /\ ~crashed
  /\ call[c].op \in {"GetAll", "GetAllByProject"} /\ call[c].pc = "next"
  /\ \E more \in BOOLEAN, bad \in 0..4, queryOk \in BOOLEAN, optsOk \in BOOLEAN :
       LET cur == call[c]
           k == Len(cur.decoded) + 1
           r == intoTicket(cur.rows[k], bad, queryOk, optsOk)
       IN IF k > Len(cur.rows) \/ ~more
          THEN /\ call' = [call EXCEPT ![c] =
                             [cur EXCEPT !.pc = "ret", !.cut = k <= Len(cur.rows),
                                         !.err = Nil]]
               /\ crashed' = FALSE
          ELSE IF r.panic
          THEN /\ call' = [call EXCEPT ![c] =
                             [cur EXCEPT !.pc = "panic",
                                         !.decoded = Append(@, cur.rows[k])]]
               /\ crashed' = TRUE
          ELSE /\ call' = [call EXCEPT ![c] =
                             IF r.err # Nil
                             THEN [cur EXCEPT !.pc = "ret",
                                              !.decoded = Append(@, cur.rows[k]),
                                              !.failedRow = k,
                                              !.err = handlePqErr(r.err)]
                             ELSE [cur EXCEPT !.decoded = Append(@, cur.rows[k]),
                                              !.tickets = Append(@, r.t)]]
               /\ crashed' = FALSE
  /\ UNCHANGED <<comments, commentSeq>>
  /\ UNCHANGED <<tickets, field_values, tickets_labels, ticketSeq,
                 fieldValueSeq, clock, generated>>

(***************************************************************************)
(* The concurrent specification: NextTicketKey, New (the ticket row) and   *)
(* Remove, run by concurrent handlers.                                     *)
(***************************************************************************)
Next ==
  \E c \in Callers :
    \/ Return(c)
    \/ RemoveBegin(c)
    \/ RemoveDelFieldValues(c)
    \/ RemoveDelLabels(c)
    \/ RemoveDelTicket(c)
    \/ RemoveRollback(c)
    \/ RemoveCommit(c)
    \/ NextTicketKey(c)
    \/ NewInsertTicket(c, {""}, {"s1"}, {<<>>})

Spec == Init /\ [][Next]_vars

(***************************************************************************)
(* The specification of New: one handler creating tickets, statement by    *)
(* statement, while time passes.                                           *)
(***************************************************************************)
NextNew ==
  \/ Tick
  \/ Return(Solo)
  \/ NewInsertTicket(Solo, {"", "PROJ1"}, Summaries, FieldsArgs)
  \/ NewInsertFieldValue(Solo)

SpecNew == Init /\ [][NextNew]_vars

(***************************************************************************)
(* The specification of Save: one handler updating tickets, statement by   *)
(* statement, while time passes.                                           *)
(***************************************************************************)
NextSave ==
  \/ Tick
  \/ Return(Solo)
  \/ SaveUpdateTicket(Solo)
  \/ SaveUpdateFieldValue(Solo)

SpecSave == Init /\ [][NextSave]_vars

(***************************************************************************)
(* The specification of the fetch: one handler running Save and Get, Get   *)
(* with its goroutine, every interleaving of the two.                      *)
(***************************************************************************)
NextFetch ==
  \/ Return(Solo)
  \/ SaveUpdateTicket(Solo)
  \/ SaveUpdateFieldValue(Solo)
  \/ GetQueryRow(Solo)
  \/ Unmarshal(Solo)
  \/ GoPopulateFields(Solo)
  \/ SendDone(Solo)
  \/ RecvDberr(Solo)
  \/ GoClose(Solo)

SpecFetch == Init /\ [][NextFetch]_vars

(***************************************************************************)
(* The specification of the decode: Get over a store whose field_values    *)
(* table is any of DecodeStores.                                           *)
(***************************************************************************)
\* the field_values row (of ticket 2) of field fid, every slot filled
DecodeRowOf(fid, sel) == TypedRow(2, fid, 7, "1.5", "core", sel, Day1)

\* field_values tables: the initial one, no row, one row of each field, and
\* two rows of different fields
DecodeStores ==
  {InitialFieldValues, <<>>}
    \cup {1 :> DecodeRowOf(fid, sel) : fid \in DOMAIN Fields, sel \in {"Medium", "High"}}
    \cup {(1 :> DecodeRowOf(5, "Medium")) @@ (2 :> DecodeRowOf(6, "")),
          (1 :> DecodeRowOf(6, "")) @@ (2 :> DecodeRowOf(7, "High"))}

InitDecode ==
  /\ tickets = InitialTickets
  /\ field_values \in DecodeStores
  /\ tickets_labels = InitialLabels
  /\ ticketSeq = 3
  /\ fieldValueSeq = 3
  /\ clock = 0
  /\ call = [c \in Callers |-> Idle]
  /\ generated = {1, 2}
  /\ crashed = FALSE
  /\ comments = InitialComments
  /\ commentSeq = 2

NextDecode ==
  \/ Return(Solo)
  \/ GetQueryRow(Solo)
  \/ Unmarshal(Solo)
  \/ GoPopulateFields(Solo)
  \/ SendDone(Solo)
  \/ RecvDberr(Solo)
  \/ GoClose(Solo)

SpecDecode == InitDecode /\ [][NextDecode]_vars

\* the scheduler runs every goroutine that can take a step: the caller's
\* decodes and channel operations, the goroutine's populateFields call, its
\* select and its return
FairFetch ==
  /\ WF_vars(Unmarshal(Solo))
  /\ WF_vars(GoPopulateFields(Solo))
  /\ WF_vars(SendDone(Solo))
  /\ WF_vars(RecvDberr(Solo))
  /\ WF_vars(GoClose(Solo))

SpecDecodeFair == InitDecode /\ [][NextDecode]_vars /\ FairFetch

(***************************************************************************)
(* The specification of the listings: one handler creating tickets and     *)
(* listing them, over the stores of DecodeStores.                          *)
(***************************************************************************)
NextList ==
  \/ Return(Solo)
  \/ NewInsertTicket(Solo, {""}, {"s1"}, {<<>>})
  \/ GetAllQuery(Solo)
  \/ GetAllByProjectQuery(Solo)
  \/ ListNext(Solo)

SpecList == InitDecode /\ [][NextList]_vars

(***************************************************************************)
(* The specification of the comments: one handler adding, editing and      *)
(* removing comments, while time passes.                                   *)
(***************************************************************************)
NextComments ==
  \/ Tick
  \/ Return(Solo)
  \/ NewCommentUpdateTicket(Solo, Bodies, Authors)
  \/ NewCommentInsert(Solo)
  \/ SaveComment(Solo, {"b2"}, {2})
  \/ RemoveComment(Solo)

SpecComments == Init /\ [][NextComments]_vars

(***************************************************************************)
(* The specification of Remove among comments: one handler adding comments *)
(* and removing tickets.                                                   *)
(***************************************************************************)
NextRemove ==
  \/ Return(Solo)
  \/ NewCommentUpdateTicket(Solo, Bodies, Authors)
  \/ NewCommentInsert(Solo)
  \/ RemoveBegin(Solo)
  \/ RemoveDelFieldValues(Solo)
  \/ RemoveDelLabels(Solo)
  \/ RemoveDelTicket(Solo)
  \/ RemoveRollback(Solo)
  \/ RemoveCommit(Solo)

SpecRemove == Init /\ [][NextRemove]_vars

(***************************************************************************)
(* The specification of the edits: one handler saving tickets and adding,  *)
(* editing and removing comments.                                          *)
(***************************************************************************)
NextEdit ==
  \/ Return(Solo)
  \/ SaveUpdateTicketOf(Solo, {"s2"}, {<<>>, <<fvFloat, fvString>>})
  \/ SaveUpdateFieldValue(Solo)
  \/ NewCommentUpdateTicket(Solo, {"b2"}, {2})
  \/ NewCommentInsert(Solo)
  \/ SaveComment(Solo, {"b2"}, {2})
  \/ RemoveComment(Solo)

SpecEdit == Init /\ [][NextEdit]_vars

(***************************************************************************)
(* Properties of Remove.                                                   *)
(***************************************************************************)
FieldValuesOf(id) == {f \in DOMAIN field_values : field_values[f].ticket_id = id}
LabelsOf(id) == {l \in tickets_labels : l.ticket_id = id}

\* the dependent rows ticket id was persisted with
OriginalFieldValuesOf(id) ==
  {f \in DOMAIN InitialFieldValues : InitialFieldValues[f].ticket_id = id}
OriginalLabelsOf(id) == {l \in InitialLabels : l.ticket_id = id}

\* committed state holds ticket id whole (its row, every field-value row and
\* every label row it was persisted with) or not at all
WholeOrGone(id) ==
  \/ /\ id \in DOMAIN tickets
     /\ FieldValuesOf(id) = OriginalFieldValuesOf(id)
     /\ \A f \in FieldValuesOf(id) : field_values[f] = InitialFieldValues[f]
     /\ LabelsOf(id) = OriginalLabelsOf(id)
     /\ id \in DOMAIN InitialTickets => tickets[id] = InitialTickets[id]
  \/ /\ id \notin DOMAIN tickets
     /\ FieldValuesOf(id) = {}
     /\ LabelsOf(id) = {}

RemoveReturned(c) == call[c].op = "Remove" /\ call[c].pc = "ret"

\* a step of c's Remove other than a Commit that succeeded
RemoveStepWithoutCommit(c) ==
  /\ call[c] # call'[c]
  /\ call'[c].op = "Remove"
  /\ ~(call[c].op = "Remove" /\ call[c].pc = "commit"
       /\ call'[c].failedAt = "none")

\* C1: Remove is all-or-nothing.  In every committed state each ticket is
\* whole or gone (no reader sees some of the three deleted and others still
\* present); a Remove of a persisted ticket that returns without failure
\* leaves none of its ticket's rows; and every step of a Remove other than its successful Commit, so every
\* Remove that fails at a delete or at Commit, leaves the committed tables
\* unchanged.
C1_RemoveAllOrNothing ==
  /\ [](\A id \in TicketIDs : WholeOrGone(id))
  /\ [](\A c \in Callers :
          RemoveReturned(c) /\ call[c].persisted /\ call[c].failedAt = "none" =>
            /\ call[c].ticket.ID \notin DOMAIN tickets
            /\ FieldValuesOf(call[c].ticket.ID) = {}
            /\ LabelsOf(call[c].ticket.ID) = {})
  /\ [][\A c \in Callers : RemoveStepWithoutCommit(c) => store' = store]_vars

\* a Remove of ticket 1 has returned after its third delete failed, with both
\* earlier deletes done inside the transaction, and ticket 1 is still whole
C1_Witness ==
  \E c \in Callers :
    /\ RemoveReturned(c)
    /\ call[c].failedAt = "tickets"
    /\ call[c].ticket.ID = 1
    /\ 1 \in DOMAIN tickets
    /\ FieldValuesOf(1) = {1, 2}

\* C2: a Remove that failed transactionally (Begin failed, or one of the
\* three deletes failed) returns a non-nil error, and never crashes.
C2_RemoveFailureReported ==
  \A c \in Callers :
    call[c].op = "Remove"
      /\ call[c].failedAt \in {"begin", "field_values", "tickets_labels", "tickets"}
      /\ call[c].pc \in {"ret", "panic"}
    => call[c].pc = "ret" /\ call[c].err # Nil /\ ~crashed

(***************************************************************************)
(* Properties of the ticket keys.                                          *)
(***************************************************************************)
\* C6: no two persisted tickets of one project, each persisted with the key
\* NextTicketKey had just returned for that project, have the same key.
C6_KeysUniquePerProject ==
  \A a, b \in DOMAIN tickets \cap generated :
    a # b /\ tickets[a].project_id = tickets[b].project_id
      => tickets[a].key # tickets[b].key

\* the persisted tickets of p, matched by project id or by project key
TicketsOfProject(p) ==
  {t \in DOMAIN tickets :
     \/ tickets[t].project_id = p.ID
     \/ ProjectOf(tickets[t].project_id).Key = p.Key}

NextTicketKeyStep(c) ==
  call[c] = Idle /\ call'[c].op = "NextTicketKey"

C4_NewReportsFieldFailure ==
  \A c \in Callers :
    call[c].op = "New" /\ call[c].pc = "ret"
      /\ call[c].ticketInserted /\ call[c].fieldFailed
    => call[c].err # Nil /\ call[c].ticket.ID \in DOMAIN tickets

\* the row Save leaves for field_values id f after the updates of the first
\* n supplied field values, given the table `before` the call: the last of
\* them with that id decides name, data_type and value
RowAfterUpdates(before, fs, n, f) ==
  LET js == {j \in 1..n : fs[j].ID = f} IN
  IF js = {} THEN before[f]
  ELSE LET j == CHOOSE x \in js : \A y \in js : y <= x
       IN [before[f] EXCEPT !.name = <<fs[j].Name>>,
                            !.data_type = <<fs[j].DataType>>,
                            !.value = <<Marshal(fs[j].Value).jsn>>]

\* C5: when the UPDATE of the k-th supplied field value is the first to
\* fail, Save has returned a non-nil error at once: the updates of the first
\* k-1 are in the store, and no later one was made (every other row is as it
\* was when Save was called).
C5_SaveStopsAtFirstFailure ==
  \A c \in Callers :
    call[c].op = "Save" /\ call[c].failedAt # 0
    => /\ call[c].pc = "ret"
       /\ call[c].err # Nil
       /\ call[c].i = call[c].failedAt
       /\ DOMAIN field_values = DOMAIN call[c].before
       /\ \A f \in DOMAIN field_values :
            field_values[f] =
              RowAfterUpdates(call[c].before, call[c].ticket.Fields,
                              call[c].failedAt - 1, f)

\* a Save of <<points, priority>> has returned after its second UPDATE
\* failed: row 1 holds the first update, row 2 is as before
C5_Witness ==
  \E c \in Callers :
    /\ call[c].op = "Save" /\ call[c].pc = "ret"
    /\ call[c].failedAt = 2
    /\ call[c].ticket.Fields = <<fvInt, fvOpt>>
    /\ field_values[1].value = <<"7">>
    /\ field_values[2] = call[c].before[2]
    /\ field_values[1] # call[c].before[1]

(***************************************************************************)
(* Properties of the fetch.                                                *)
(***************************************************************************)
\* intoTicket got past row.Scan for caller c's Get
Fetching(c) == call[c].op = "Get" /\ call[c].row # 0

\* the goroutine's populateFields call has returned
Populated(c) == call[c].g \in {"select", "return", "exited"}

AllDecoded(c) ==
  LET row == tickets[call[c].row] t == call[c].t IN
  /\ t.Assignee = [ID |-> row.assignee_id]
  /\ t.Reporter = [ID |-> row.reporter_id]
  /\ t.Status = [ID |-> row.status_id]
  /\ t.Type = [ID |-> row.ticket_type_id]

\* C3: a fetch returns nil only after populateFields has returned nil and
\* all four references are decoded; if a reference does not decode or
\* populateFields returned an error, the fetch returns a non-nil error.
C3_FetchWaitsForBothPhases ==
  \A c \in Callers :
    Fetching(c) /\ call[c].pc = "ret"
    => /\ call[c].err = Nil =>
            Populated(c) /\ call[c].gres = Nil /\ AllDecoded(c)
       /\ call[c].bad # 0 => call[c].err # Nil
       /\ Populated(c) /\ call[c].gres # Nil => call[c].err # Nil

\* a Get of ticket 2 has returned nil with the fields populated and the four
\* references decoded
C3_Witness ==
  \E c \in Callers :
    /\ Fetching(c) /\ call[c].pc = "ret" /\ call[c].err = Nil
    /\ call[c].row = 2 /\ Populated(c) /\ AllDecoded(c)

\* the aggregate of persisted ticket id: its columns, its references, and
\* one decoded FieldValue per field_values row
Aggregate(id) ==
  [ID |-> id, Key |-> tickets[id].key,
   CreatedDate |-> tickets[id].created_date,
   UpdatedDate |-> tickets[id].updated_date,
   Summary |-> tickets[id].summary, Description |-> tickets[id].description,
   Assignee |-> [ID |-> tickets[id].assignee_id],
   Reporter |-> [ID |-> tickets[id].reporter_id],
   Status |-> [ID |-> tickets[id].status_id],
   Type |-> [ID |-> tickets[id].ticket_type_id],
   Fields |-> [k \in 1..Len(FieldRowsOf(id)) |-> DecodeRow(FieldRowsOf(id)[k])]]

\* no failure of the database or of a JSON column was injected into c's Get
NoInjectedFailure(c) ==
  call[c].queryOk /\ call[c].bad = 0 /\ call[c].popOk

\* C8: for every persisted ticket T, with no failure injected, Get by T's id
\* alone and Get by T's key alone both run to their return, succeed, and
\* return T's aggregate.
C8_GetByIdOrKey ==
  \A c \in Callers : \A id \in DOMAIN tickets :
    call[c].op = "Get" /\ NoInjectedFailure(c)
      /\ call[c].arg \in {[ID |-> id, Key |-> ""], [ID |-> 0, Key |-> tickets[id].key]}
      /\ (call[c].pc = "ret" \/ crashed)
    => /\ ~crashed
       /\ call[c].err = Nil
       /\ call[c].t = Aggregate(id)

\* C9: a fetch of a ticket with n field-value rows does not crash, and when
\* it returns nil the ticket's Fields holds exactly the n decoded rows.
C9_FieldsPopulated ==
  \A c \in Callers :
    Fetching(c) /\ call[c].g \notin {"none", "populate"}
    => /\ call[c].g # "panic"
       /\ call[c].pc = "ret" /\ call[c].err = Nil =>
            /\ Len(call[c].t.Fields) = Cardinality(FieldValuesOf(call[c].t.ID))
            /\ call[c].t.Fields = Aggregate(call[c].t.ID).Fields

\* field_values row f holds a value the write path stored under the data
\* type of the row's field
WrittenByWritePath(f) ==
  /\ field_values[f].value # <<>>
  /\ field_values[f].field_id \in DOMAIN Fields
  /\ field_values[f].data_type = <<Fields[field_values[f].field_id].data_type>>
  /\ field_values[f].data_type[1] \in {"FLOAT", "INT", "STRING", "DATE", "OPT"}

\* C10: once populateFields has run (its queries not failing) for a ticket,
\* every row of the ticket that Save stored a value in has been read back as
\* a FieldValue whose Value is the value stored (it encodes to the stored
\* text).
C10_FieldValuesRoundTrip ==
  \A c \in Callers : \A f \in DOMAIN field_values :
    Fetching(c) /\ call[c].g \notin {"none", "populate"} /\ call[c].popOk
      /\ field_values[f].ticket_id = call[c].t.ID /\ WrittenByWritePath(f)
    => /\ call[c].g # "panic"
       /\ \E k \in 1..Len(call[c].t.Fields) :
            /\ call[c].t.Fields[k].ID = f
            /\ Marshal(call[c].t.Fields[k].Value) =
                 [err |-> Nil, jsn |-> field_values[f].value[1]]

(***************************************************************************)
(* Properties of the decode.                                               *)
(***************************************************************************)
\* the data type of the field of field_values row f
DataTypeOf(f) == Fields[field_values[f].field_id].data_type

\* populateFields has run for c's fetch of the ticket row f belongs to
PopulatedFor(c, f) ==
  /\ Fetching(c) /\ call[c].g \notin {"none", "populate"}
  /\ field_values[f].ticket_id = call[c].t.ID
  /\ field_values[f].field_id \in DOMAIN Fields

\* C11: once populateFields has run for a ticket, it has not crashed; with
\* no read failing, every OPT row of the ticket is in Fields as a FieldValue
\* whose Value has Selected equal to the row's opt_value and Options equal
\* to the options of the row's field (none: the empty sequence, no error);
\* with a read failing, populateFields returned an error.
C11_OptDecoded ==
  \A c \in Callers : \A f \in DOMAIN field_values :
    PopulatedFor(c, f) /\ DataTypeOf(f) = "OPT"
    => /\ call[c].g # "panic"
       /\ ~call[c].popOk => call[c].gres # Nil
       /\ call[c].popOk =>
            /\ call[c].gres = Nil
            /\ \E k \in 1..Len(call[c].t.Fields) :
                 /\ call[c].t.Fields[k].ID = f
                 /\ call[c].t.Fields[k].Value =
                      OptV(field_values[f].opt_value[1],
                           FieldOptions[field_values[f].field_id])

\* C12: once populateFields has run, with no read failing, for a ticket with
\* a row whose data type is none of FLOAT, INT, STRING, DATE, OPT, it has not
\* crashed, it returned nil, the row is in Fields as a FieldValue with a nil
\* Value, and the fetch, its references decoding, returns nil.
C12_UnknownTagIsNull ==
  \A c \in Callers : \A f \in DOMAIN field_values :
    PopulatedFor(c, f) /\ call[c].popOk
      /\ DataTypeOf(f) \notin {"FLOAT", "INT", "STRING", "DATE", "OPT"}
    => /\ call[c].g # "panic" /\ ~crashed
       /\ call[c].gres = Nil
       /\ \E k \in 1..Len(call[c].t.Fields) :
            /\ call[c].t.Fields[k].ID = f
            /\ call[c].t.Fields[k].DataType = DataTypeOf(f)
            /\ call[c].t.Fields[k].Value = NilV
       /\ call[c].pc = "ret" /\ call[c].bad = 0 => call[c].err = Nil

(***************************************************************************)
(* Properties of the listings.                                             *)
(***************************************************************************)
ListingReturned(c) ==
  call[c].op \in {"GetAll", "GetAllByProject"} /\ call[c].pc = "ret"

\* the tickets of the first n rows of c's listing, in order
TicketsOfRows(c, n) == [j \in 1..n |-> Aggregate(call[c].rows[j])]

\* the step-by-step intoTicket of Get and the operator intoTicket agree: a Get
\* that got past row.Scan and returned has the error and the ticket the
\* operator gives for the same row and the same failures
IntoTicketAgrees ==
  \A c \in Callers :
    Fetching(c) /\ call[c].pc = "ret"
    => \E queryOk \in BOOLEAN, optsOk \in BOOLEAN :
         LET r == intoTicket(call[c].row, call[c].bad, queryOk, optsOk) IN
         /\ (queryOk /\ optsOk) = call[c].popOk
         /\ ~r.panic
         /\ call[c].err = handlePqErr(r.err)
         /\ call[c].t = r.t

\* C13: a listing that returned after the k-th row was the first to fail to
\* decode returned a non-nil error, called intoTicket on no row after the
\* k-th, and its tickets are those of rows 1..k-1 in order; a listing that
\* returned nil ran its query and decoded every row delivered to it (every
\* row of the result set unless the stream broke), its tickets being theirs
\* in order.
C13_ListingAbortsAtFirstFailure ==
  \A c \in Callers :
    ListingReturned(c)
    => LET k == call[c].failedRow IN
       /\ k # 0 =>
            /\ call[c].err # Nil
            /\ call[c].decoded = SubSeq(call[c].rows, 1, k)
            /\ call[c].tickets = TicketsOfRows(c, k - 1)
       /\ call[c].err = Nil =>
            /\ call[c].queryOk /\ k = 0
            /\ call[c].decoded = SubSeq(call[c].rows, 1, Len(call[c].decoded))
            /\ call[c].tickets = TicketsOfRows(c, Len(call[c].decoded))
            /\ ~call[c].cut => call[c].decoded = call[c].rows

\* a listing of three rows has returned an error after its second row failed
\* to decode, with the ticket of the first row alone in its result
C13_Witness ==
  \E c \in Callers :
    /\ ListingReturned(c)
    /\ Len(call[c].rows) = 3
    /\ call[c].failedRow = 2
    /\ call[c].err # Nil
    /\ Len(call[c].tickets) = 1
    /\ call[c].tickets[1].ID = call[c].rows[1]

(***************************************************************************)
(* Properties of the identity of tickets, and of the comments.             *)
(***************************************************************************)
\* the columns of a tickets row that Save does not write
FixedColumns(row) ==
  [row EXCEPT !.summary = "", !.description = "", !.updated_date = 0]

SaveStep(c) == call'[c].op = "Save" /\ call'[c] # call[c]

\* the identities of the field values c's Save was given
SuppliedIDs(c) ==
  {call'[c].ticket.Fields[j].ID : j \in 1..Len(call'[c].ticket.Fields)}

\* C14: no step of Save, NewComment, SaveComment or RemoveComment removes a
\* persisted ticket or changes the key (or any column other than summary,
\* description, updated_date) of the row under its id; and a step of
\* Save(ticket) changes nothing but summary, description and updated_date of
\* the row of ticket.ID and the field_values rows whose ids are in
\* ticket.Fields.
C14_IdAndKeyImmutable ==
  [][/\ \A id \in DOMAIN tickets :
          /\ id \in DOMAIN tickets'
          /\ tickets'[id].key = tickets[id].key
          /\ FixedColumns(tickets'[id]) = FixedColumns(tickets[id])
     /\ \A c \in Callers :
          SaveStep(c) =>
            /\ DOMAIN tickets' = DOMAIN tickets
            /\ \A id \in DOMAIN tickets :
                 id # call'[c].ticket.ID => tickets'[id] = tickets[id]
            /\ DOMAIN field_values' = DOMAIN field_values
            /\ \A f \in DOMAIN field_values :
                 f \notin SuppliedIDs(c) => field_values'[f] = field_values[f]
            /\ tickets_labels' = tickets_labels
            /\ comments' = comments]_vars

\* ticket 1 has been saved with a new summary, has got a second comment, its
\* first comment has been removed and another comment edited, and it still
\* has the key it was created with
C14_Witness ==
  /\ tickets[1].summary = "s2"
  /\ tickets[1].key = "PROJ1"
  /\ 1 \notin DOMAIN comments
  /\ \E k \in DOMAIN comments :
       comments[k].ticket_id = 1 /\ comments[k].updated_date # <<>>
  /\ field_values[1].value # <<>>

RemoveStep(c) == call'[c].op = "Remove" /\ call'[c] # call[c]

\* C15: no step of Remove(ticket) changes the comments table, so after a
\* Remove every comment that referenced the ticket is there as it was; and
\* no step of it changes a tickets row, a field_values row or a label row
\* of another ticket.
C15_RemoveKeepsComments ==
  [][\A c \in Callers :
       RemoveStep(c) =>
         LET id == call'[c].ticket.ID IN
         /\ comments' = comments
         /\ \A t \in DOMAIN tickets :
              t # id => t \in DOMAIN tickets' /\ tickets'[t] = tickets[t]
         /\ \A f \in DOMAIN field_values :
              field_values[f].ticket_id # id =>
                f \in DOMAIN field_values' /\ field_values'[f] = field_values[f]
         /\ \A l \in tickets_labels : l.ticket_id # id => l \in tickets_labels'
         /\ DOMAIN tickets' \subseteq DOMAIN tickets
         /\ DOMAIN field_values' \subseteq DOMAIN field_values
         /\ tickets_labels' \subseteq tickets_labels]_vars

\* Remove of ticket 1 has returned nil, ticket 1 is gone, and its two
\* comments (the one it started with, one added since) are still there
C15_Witness ==
  \E c \in Callers :
    /\ RemoveReturned(c) /\ call[c].err = Nil /\ call[c].failedAt = "none"
    /\ call[c].ticket.ID = 1
    /\ 1 \notin DOMAIN tickets
    /\ 1 \in DOMAIN comments /\ comments[1] = InitialComments[1]
    /\ \E k \in DOMAIN comments : k # 1 /\ comments[k].ticket_id = 1

\* C16: the row New inserted has the key New was given, whatever it is
\* (empty, or one another ticket of the project has already) and whatever
\* the number of tickets of the project.
C16_NewKeepsSuppliedKey ==
  \A c \in Callers :
    call[c].op = "New" /\ call[c].ticketInserted
    => /\ call[c].ticket.ID \in DOMAIN tickets
       /\ tickets[call[c].ticket.ID].key = call[c].ticket.Key
       /\ tickets[call[c].ticket.ID].project_id = call[c].project.ID

\* New, given the empty key for project PROJ that holds two tickets, has
\* returned with the ticket persisted under the empty key
C16_Witness ==
  \E c \in Callers :
    /\ call[c].op = "New" /\ call[c].ticketInserted /\ call[c].pc = "ret"
    /\ call[c].project = [ID |-> 1, Key |-> "PROJ"]
    /\ call[c].ticket.Key = ""
    /\ tickets[call[c].ticket.ID].key = ""
    /\ CountTickets(call[c].project) = 3

NewCommentReturned(c) == call[c].op = "NewComment" /\ call[c].pc = "ret"

\* C17: between NewComment's two statements the parent ticket's updated_date
\* is already the time of the call and no comment row has been added; when
\* NewComment has returned nil, the comments table has a new row under c.ID
\* with the given body, the ticket's id and the author's id, and the parent
\* ticket's updated_date is the time of the call.
C17_NewCommentTouchesThenInserts ==
  \A c \in Callers :
    /\ call[c].op = "NewComment" /\ call[c].pc = "insert" =>
         /\ comments = call[c].before.comments
         /\ call[c].t.ID \in DOMAIN tickets =>
              tickets[call[c].t.ID].updated_date = call[c].now
    /\ NewCommentReturned(c) /\ call[c].err = Nil =>
         /\ call[c].c.ID \in DOMAIN comments
         /\ call[c].c.ID \notin DOMAIN call[c].before.comments
         /\ comments[call[c].c.ID].body = call[c].c.Body
         /\ comments[call[c].c.ID].ticket_id = call[c].t.ID
         /\ comments[call[c].c.ID].author_id = call[c].c.Author.ID
         /\ call[c].t.ID \in DOMAIN tickets =>
              tickets[call[c].t.ID].updated_date = call[c].now

\* NewComment on ticket 1, called at time 1, has returned nil: the comment
\* row is there and ticket 1, created at 0, has updated_date 1
C17_Witness ==
  \E c \in Callers :
    /\ NewCommentReturned(c) /\ call[c].err = Nil
    /\ call[c].t.ID = 1 /\ call[c].now = 1
    /\ tickets[1].created_date = 0 /\ tickets[1].updated_date = 1
    /\ comments[call[c].c.ID] = CommentRow("b2", 1, 2)

\* C20 as claimed: when NewComment has returned an error, the tickets and
\* comments tables are as they were when it was called.
C20_NewCommentFailureChangesNothing ==
  \A c \in Callers :
    NewCommentReturned(c) /\ call[c].err # Nil
    => /\ tickets = call[c].before.tickets
       /\ comments = call[c].before.comments

\* C20 as amended: when NewComment has returned an error no comment row was
\* added; if it was the UPDATE that failed the tickets table is as it was;
\* if it was the INSERT that failed the parent ticket's updated_date is the
\* time of the call and nothing else in the tickets table has changed.
C20_NewCommentFailureKeepsTouch ==
  \A c \in Callers :
    NewCommentReturned(c) /\ call[c].err # Nil
    => /\ comments = call[c].before.comments
       /\ call[c].failedAt = "update" => tickets = call[c].before.tickets
       /\ call[c].failedAt = "insert" =>
            /\ DOMAIN tickets = DOMAIN call[c].before.tickets
            /\ \A id \in DOMAIN tickets :
                 tickets[id] =
                   IF id = call[c].t.ID
                   THEN [call[c].before.tickets[id] EXCEPT
                           !.updated_date = call[c].now]
                   ELSE call[c].before.tickets[id]

\* NewComment on ticket 1, called at time 1, has returned an error from its
\* INSERT: no comment row was added and ticket 1's updated_date went from 0
\* to 1
C20_Witness ==
  \E c \in Callers :
    /\ NewCommentReturned(c) /\ call[c].err # Nil
    /\ call[c].failedAt = "insert"
    /\ call[c].t.ID = 1
    /\ call[c].before.tickets[1].updated_date = 0
    /\ tickets[1].updated_date = 1
    /\ comments = call[c].before.comments

NewStep(c) == call'[c].op = "New" /\ call'[c] # call[c]

\* C19: no step of a New whose ticket INSERT failed adds a field_values row,
\* and such a New returns the error of the ticket INSERT.
C19_NewStopsAfterFailedTicketInsert ==
  [][\A c \in Callers :
       NewStep(c) /\ ~call'[c].ticketInserted =>
         /\ field_values' = field_values
         /\ call'[c].pc = "ret" => call'[c].err = handlePqErr(PqError)]_vars

(***************************************************************************)
(* Properties of the handshake.                                            *)
(***************************************************************************)
\* C18: no send of the handshake is on a closed channel and no channel is
\* closed twice; and every fetch that got past row.Scan leads to intoTicket
\* having returned and the goroutine having terminated, unless
\* populateFields did not return (it panicked).
C18_HandshakeTerminates ==
  /\ [](\A c \in Callers :
          call[c].op = "Get" =>
            /\ call[c].pc # "panic"
            /\ ~(call[c].g = "panic" /\ call[c].dberrClosed))
  /\ \A c \in Callers :
       Fetching(c) ~>
         /\ Fetching(c)
         /\ \/ call[c].pc = "ret" /\ call[c].g = "exited"
                 /\ call[c].dberrClosed /\ call[c].doneClosed
            \/ call[c].g = "panic"

\* a Get whose third reference did not decode and whose populateFields
\* failed has returned the error, its goroutine has terminated and both
\* channels are closed
C18_Witness ==
  \E c \in Callers :
    /\ Fetching(c) /\ call[c].pc = "ret" /\ call[c].err # Nil
    /\ call[c].bad = 3 /\ call[c].gres # Nil
    /\ call[c].g = "exited"
    /\ call[c].dberrClosed /\ call[c].doneClosed

====
